---- MODULE Spec2Model ----
(***************************************************************************)
(* A model of news_crawler.py: the page fetch with its retry loop, the two *)
(* model-driven extraction steps (hot-news list, article detail), and the  *)
(* orchestration in main that persists the result file.                    *)
(*                                                                         *)
(* Texts that the code parses (the model's answers) are sequences of       *)
(* tokens; a token is a run of characters that the code's regular          *)
(* expression and json.loads treat as a unit.  URLs are sequences of       *)
(* tokens as well (origin, separators, path segments).                     *)
(***************************************************************************)
EXTENDS Integers, Sequences, FiniteSets, TLC

(***************************************************************************)
(* Tokens of a model answer.                                               *)
(***************************************************************************)
WS    == " "        \* a run of whitespace
FENCE == "fence"    \* a code fence (three backquotes)
JSONTAG == "json"   \* the word json (any letter case)
PROSE == "prose"    \* any other word of commentary
LBR   == "["
RBR   == "]"
COMMA == ","

\* JSON field values: a string (a sequence of pieces), a number, null or a
\* list of strings.
JStr(s)  == [t |-> "str",  s |-> s]
JList(s) == [t |-> "list", s |-> s]
JNum     == [t |-> "num",  s |-> <<"1">>]
JNull    == [t |-> "null", s |-> <<>>]

\* Python truthiness of a field value.
Truthy(v) == CASE v.t = "str"  -> v.s # <<>>
               [] v.t = "list" -> v.s # <<>>
               [] v.t = "num"  -> TRUE
               [] OTHER        -> FALSE

IsStr(v) == v.t = "str"

\* SOURCES
ITHOME    == "https://www.ithome.com"
MYDRIVERS == "https://www.mydrivers.com"
SOURCES   == <<ITHOME, MYDRIVERS>>

\* Pieces of a url: an origin with a scheme, a bare host, "/", segments.
SchemeOrigins == {ITHOME, MYDRIVERS, "https://other.example"}
ELLIPSIS == "..."

UrlAbs     == <<ITHOME, "/", "a">>
UrlAbs2    == <<"https://other.example", "/", "b">>
UrlRel     == <<"/", "r">>
UrlRelMyd  == <<"/", "mydrivers", "/", "m">>
UrlElided  == <<ITHOME, "/", ELLIPSIS>>
UrlNoScheme == <<"www.host.example", "/", "n">>
UrlNetPath == <<"/", "/", "cdn.example", "/", "s">>

\* JSON objects that occur in answers, by token.  A token names the whole
\* serialized object {...}.
DictTokens == {"Ia", "Ib", "Ir", "Im", "Ie", "In", "Is", "I0", "Ix",
               "Dfull", "Dnoimg", "Dempty", "Dother", "Dfailed", "{}"}

Dict(tok) ==
  CASE tok = "Ia" -> [title |-> JStr(<<"a">>), url |-> JStr(UrlAbs)]
    [] tok = "Ib" -> [title |-> JStr(<<"b">>), url |-> JStr(UrlAbs2)]
    [] tok = "Ir" -> [title |-> JStr(<<"r">>), url |-> JStr(UrlRel)]
    [] tok = "Im" -> [title |-> JStr(<<"m">>), url |-> JStr(UrlRelMyd)]
    [] tok = "Ie" -> [title |-> JStr(<<"e">>), url |-> JStr(UrlElided)]
    [] tok = "In" -> [title |-> JStr(<<"n">>), url |-> JStr(UrlNoScheme)]
    [] tok = "Is" -> [title |-> JStr(<<"s">>), url |-> JStr(UrlNetPath)]
    [] tok = "I0" -> [title |-> JStr(<<"z">>), url |-> JStr(<<>>)]
    [] tok = "Ix" -> [title |-> JStr(<<"x">>), url |-> JNum]
    [] tok = "Dfull"  -> [content |-> JStr(<<"summary">>), images |-> JList(<<"img">>)]
    [] tok = "Dnoimg" -> [content |-> JStr(<<"summary">>), images |-> JList(<<>>)]
    [] tok = "Dempty" -> [content |-> JStr(<<>>), images |-> JList(<<>>)]
    [] tok = "Dother" -> [summary |-> JStr(<<"summary">>)]
    [] tok = "Dfailed" -> [content |-> JStr(<<"extraction failed">>), images |-> JList(<<>>)]
    [] OTHER -> <<>>

\* JSON scalars that occur in answers, by token.
ScalarTokens == {"str", "1", "null"}

AtomTokens == DictTokens \cup ScalarTokens

\* dict.get(key, default)
Get(d, key, default) == IF key \in DOMAIN d THEN d[key] ELSE default

(***************************************************************************)
(* Parsed JSON values: a list of values or an atom (object or scalar).     *)
(***************************************************************************)
VList(elems) == [kind |-> "list", tok |-> "", elems |-> elems]
VAtom(tok)   == [kind |-> "atom", tok |-> tok, elems |-> <<>>]
NoValue      == [kind |-> "none", tok |-> "", elems |-> <<>>]

IsDictValue(v) == v.kind = "atom" /\ v.tok \in DictTokens

\* Python truthiness of a parsed value.
ValueTruthy(v) ==
  CASE v.kind = "list" -> v.elems # <<>>
    [] v.kind = "atom" /\ v.tok \in DictTokens -> DOMAIN Dict(v.tok) # {}
    [] v.kind = "atom" /\ v.tok = "null" -> FALSE
    [] v.kind = "atom" -> TRUE
    [] OTHER -> FALSE

\* str.strip()
RECURSIVE lstrip(_)
lstrip(s) == IF s # <<>> /\ Head(s) = WS THEN lstrip(Tail(s)) ELSE s

RECURSIVE rstrip(_)
rstrip(s) == IF s # <<>> /\ s[Len(s)] = WS THEN rstrip(SubSeq(s, 1, Len(s) - 1)) ELSE s

strip(s) == rstrip(lstrip(s))

\* The first index >= i of s that holds no whitespace (Len(s)+1 if none).
RECURSIVE SkipWs(_, _)
SkipWs(s, i) == IF i <= Len(s) /\ s[i] = WS THEN SkipWs(s, i + 1) ELSE i

\* The first index >= i of s that holds a fence (0 if none).
RECURSIVE NextFence(_, _)
NextFence(s, i) ==
  IF i > Len(s) THEN 0
  ELSE IF s[i] = FENCE THEN i ELSE NextFence(s, i + 1)

\* re.search(fence (?:json)? \s* (.*?) \s* fence, text, DOTALL | IGNORECASE):
\* [found, group1].  The match starts at the leftmost fence that has a fence
\* after it; the optional tag and the whitespace are taken greedily, the
\* group lazily up to the whitespace before the next fence.
FenceSearch(text) ==
  LET open == NextFence(text, 1)
      p    == IF open > 0 /\ open < Len(text) /\ text[open + 1] = JSONTAG
              THEN open + 2 ELSE open + 1
      q    == SkipWs(text, p)
      close == IF open = 0 THEN 0 ELSE NextFence(text, q)
  IN  IF open = 0 \/ close = 0
      THEN [found |-> FALSE, group |-> <<>>]
      ELSE [found |-> TRUE, group |-> rstrip(SubSeq(text, q, close - 1))]

\* clean_json_string
clean_json_string(text) ==
  IF text = <<>> THEN <<>>
  ELSE LET t == strip(text)
           m == FenceSearch(t)
       IN  IF m.found THEN strip(m.group) ELSE t

(***************************************************************************)
(* json.loads on a token sequence: [ok, val].  ok = FALSE stands for       *)
(* json.JSONDecodeError.                                                   *)
(***************************************************************************)
RECURSIVE ParseValue(_, _), ParseArrayBody(_, _, _, _)

\* A value starting at index i (after whitespace): [ok, val, next].
ParseValue(s, i) ==
  LET j == SkipWs(s, i) IN
  IF j > Len(s) THEN [ok |-> FALSE, val |-> NoValue, next |-> j]
  ELSE IF s[j] \in AtomTokens THEN [ok |-> TRUE, val |-> VAtom(s[j]), next |-> j + 1]
  ELSE IF s[j] = LBR THEN ParseArrayBody(s, j + 1, <<>>, TRUE)
  ELSE [ok |-> FALSE, val |-> NoValue, next |-> j]

\* The elements after "[" (first = TRUE) or after a "," (first = FALSE).
ParseArrayBody(s, i, acc, first) ==
  LET j == SkipWs(s, i) IN
  IF j > Len(s) THEN [ok |-> FALSE, val |-> NoValue, next |-> j]
  ELSE IF first /\ s[j] = RBR THEN [ok |-> TRUE, val |-> VList(acc), next |-> j + 1]
  ELSE LET r == ParseValue(s, j)
           k == SkipWs(s, r.next)
       IN  IF ~r.ok \/ k > Len(s) THEN [ok |-> FALSE, val |-> NoValue, next |-> k]
           ELSE IF s[k] = COMMA THEN ParseArrayBody(s, k + 1, Append(acc, r.val), FALSE)
           ELSE IF s[k] = RBR
                THEN [ok |-> TRUE, val |-> VList(Append(acc, r.val)), next |-> k + 1]
           ELSE [ok |-> FALSE, val |-> NoValue, next |-> k]

json_loads(s) ==
  LET r == ParseValue(s, 1) IN
  IF r.ok /\ SkipWs(s, r.next) > Len(s)
  THEN [ok |-> TRUE, val |-> r.val]
  ELSE [ok |-> FALSE, val |-> NoValue]

(***************************************************************************)
(* Program constants.                                                      *)
(***************************************************************************)
\* Mutant: the fetch loop makes one more pass.
MaxAttemptsMore    == 3 + 1

MaxAttempts        == 3
MinPageLen         == 200
MinHomeLen         == 500
ListContextLimit   == 20000
DetailContextLimit == 10000
ListCap            == 8

(***************************************************************************)
(* Bounds of the model.                                                    *)
(***************************************************************************)
\* The number of news items of one run whose detail step may deviate from
\* the nominal course (first request accepted, answer a full detail object).
MaxFaultyItems == 1

Min(a, b) == IF a < b THEN a ELSE b

Take(s, n) == SubSeq(s, 1, Min(n, Len(s)))

(***************************************************************************)
(* Page texts: the length in characters, whether the word "ithome" occurs *)
(* in the text and whether the text holds the page reader's "usage limit" *)
(* notice.  NoText is the empty string.                                    *)
(***************************************************************************)
Text(n, ith) == [len |-> n, ithome |-> ith, marker |-> FALSE]

\* A page of n characters whose body holds the reader's "usage limit"
\* notice.
LimitNotice(n) == [len |-> n, ithome |-> FALSE, marker |-> TRUE]
NoText == Text(0, FALSE)

\* A section of full_home_content: newline, the label line with the site,
\* the text, newline (main, line 223).
HeaderLen(site) == IF site = ITHOME THEN 36 ELSE 39
SectionLen(sec) == HeaderLen(sec.site) + sec.text.len + 1

RECURSIVE DocLen(_)
DocLen(doc) == IF doc = <<>> THEN 0 ELSE SectionLen(Head(doc)) + DocLen(Tail(doc))

\* "ithome" in all_markdown: in a section's label or in a page's text.
MentionsIthome(doc) ==
  \E i \in 1..Len(doc) : doc[i].site = ITHOME \/ doc[i].text.ithome

\* "mydrivers" in u
ContainsMydrivers(u) == \E i \in 1..Len(u) : u[i] \in {"mydrivers", MYDRIVERS}

\* u.startswith("/")
StartsWithSlash(u) == u # <<>> /\ u[1] = "/"

\* urllib.parse.urljoin(base, u) for a base that is an origin and a u that
\* starts with "/": a network-path reference ("//host/...") keeps only the
\* base's scheme, an absolute path replaces the base's path.
urljoin(base, u) ==
  IF Len(u) >= 2 /\ u[2] = "/" THEN <<"https:">> \o u ELSE <<base>> \o u

\* Mutant: every relative url is joined with the first origin.
ResolveUrlFirstOrigin(u, all_markdown) ==
  IF StartsWithSlash(u) THEN urljoin(ITHOME, u) ELSE u

\* get_latest_hot_news, lines 160-165
ResolveUrl(u, all_markdown) ==
  IF StartsWithSlash(u)
  THEN IF MentionsIthome(all_markdown) /\ ~ContainsMydrivers(u)
       THEN urljoin(ITHOME, u)
       ELSE urljoin(MYDRIVERS, u)
  ELSE u

\* get_latest_hot_news, lines 153-167: the loop over data, from element i on.
\* raised = TRUE stands for the AttributeError of item.get on a value that
\* is no object, or of u.startswith on a url that is no string.
RECURSIVE ValidData(_, _, _, _)
ValidData(elems, i, acc, all_markdown) ==
  IF i > Len(elems) THEN [raised |-> FALSE, items |-> acc]
  ELSE IF ~IsDictValue(elems[i]) THEN [raised |-> TRUE, items |-> <<>>]
  ELSE LET item == Dict(elems[i].tok)
           u == Get(item, "url", JStr(<<>>))
           t == Get(item, "title", JStr(<<>>))
       IN  IF ~Truthy(u) THEN ValidData(elems, i + 1, acc, all_markdown)
           ELSE IF ~IsStr(u) THEN [raised |-> TRUE, items |-> <<>>]
           ELSE ValidData(elems, i + 1,
                          Append(acc, [title |-> t,
                                       url |-> ResolveUrl(u.s, all_markdown)]),
                          all_markdown)

\* A model response: the call raised, or it returned a content.
Raised     == [raised |-> TRUE, content |-> <<>>]
Answer(c)  == [raised |-> FALSE, content |-> c]

\* Mutant: the test of the closing bracket inverted.
RepairableIfClosed(cleaned_content) ==
  LET c == strip(cleaned_content)
  IN  c # <<>> /\ Head(c) = LBR /\ c[Len(c)] = RBR

\* get_latest_hot_news, lines 145-147: the repair applies.
Repairable(cleaned_content) ==
  LET c == strip(cleaned_content)
  IN  c # <<>> /\ Head(c) = LBR /\ c[Len(c)] # RBR

\* get_latest_hot_news, lines 139-150: [ok, val].  ok = FALSE: the function
\* returns [] (line 150), or the second json.loads raised and the outer
\* handler returns [] (lines 171-173).
ParseListAnswer(content) ==
  LET cleaned_content == clean_json_string(content)
      first == json_loads(cleaned_content)
  IN  IF first.ok THEN first
      ELSE IF Repairable(cleaned_content)
           THEN json_loads(Append(cleaned_content, RBR))
           ELSE [ok |-> FALSE, val |-> NoValue]

\* get_latest_hot_news, line 169
Cap(valid_data) == Take(valid_data, ListCap)

\* get_latest_hot_news: the returned list.  Iterating a parsed value that
\* is no list either raises (caught, lines 171-173) or runs zero times.
get_latest_hot_news(all_markdown, resp) ==
  IF resp.raised THEN <<>>
  ELSE LET data == ParseListAnswer(resp.content)
       IN  IF ~data.ok \/ data.val.kind # "list" THEN <<>>
           ELSE LET v == ValidData(data.val.elems, 1, <<>>, all_markdown)
                IN  IF v.raised THEN <<>> ELSE Cap(v.items)

\* get_article_details, lines 200-209: the value returned after the page
\* was fetched.
Placeholder == VAtom("Dfailed")

\* Mutant: the handler returns None.
get_article_details_none(resp) ==
  IF resp.raised THEN VAtom("null")
  ELSE LET r == json_loads(clean_json_string(resp.content))
       IN  IF r.ok THEN r.val ELSE VAtom("null")

get_article_details(resp) ==
  IF resp.raised THEN Placeholder
  ELSE LET r == json_loads(clean_json_string(resp.content))
       IN  IF r.ok THEN r.val ELSE Placeholder

(***************************************************************************)
(* The inputs of a run.                                                    *)
(***************************************************************************)
\* OPENROUTER_API_KEY: unset, set to the empty string, set.
Keys == {"unset", "empty", "set"}

\* The answers of the page reader to one request.
OkTexts == {Text(MinPageLen, FALSE), Text(MinHomeLen, FALSE),
            Text(MinHomeLen + 1, FALSE), Text(MinHomeLen + 1, TRUE),
            Text(ListContextLimit + 5000, FALSE), LimitNotice(MinPageLen)}
Responses ==
  {[kind |-> "exception", status |-> 0, text |-> NoText],
   [kind |-> "http", status |-> 429, text |-> NoText],
   [kind |-> "http", status |-> 500, text |-> NoText],
   [kind |-> "http", status |-> 200, text |-> Text(MinPageLen - 1, FALSE)]}
  \cup {[kind |-> "http", status |-> 200, text |-> t] : t \in OkTexts}

\* The serialization of a list of objects: [ o1 , o2 , ... ]
RECURSIVE Joined(_)
Joined(toks) ==
  IF toks = <<>> THEN <<>>
  ELSE IF Len(toks) = 1 THEN toks
  ELSE <<Head(toks), COMMA, WS>> \o Joined(Tail(toks))

Serialize(toks) == <<LBR>> \o Joined(toks) \o <<RBR>>

FiveItems == <<"Ia", "Ib", "Ia", "Ib", "Ia">>
NineItems == <<"Ia", "Ib", "Ia", "Ib", "Ia", "Ib", "Ia", "Ib", "Ia">>

\* The model's responses to the list prompt.
ListResponses ==
  {Raised, Answer(<<>>),
   Answer(Serialize(<<>>)),
   Answer(Serialize(<<"Ia">>)),
   Answer(Serialize(<<"Ib", "Ia">>)),
   Answer(Serialize(<<"Ir", "Im">>)),
   Answer(Serialize(<<"Ie", "In">>)),
   Answer(Serialize(<<"Is", "I0">>)),
   Answer(Serialize(<<"Ia", "Ix">>)),
   Answer(Serialize(<<"Ia", "str">>)),
   Answer(Serialize(NineItems)),
   Answer(Serialize(FiveItems)),
   Answer(Take(Serialize(<<"Ia", "Ib">>), 4)),
   Answer(<<LBR, "Ia", COMMA>>),
   Answer(<<PROSE, WS>> \o Serialize(<<"Ia">>)),
   Answer(<<FENCE, JSONTAG, WS>> \o Serialize(<<"Ib">>) \o <<WS, FENCE>>),
   Answer(<<"Ia">>),
   Answer(<<"str">>)}

\* The model's responses to the detail prompt.
NominalDetail == Answer(<<"Dfull">>)
DetailResponses ==
  {Raised, Answer(<<>>), NominalDetail,
   Answer(<<"Dnoimg">>), Answer(<<"Dempty">>), Answer(<<"Dother">>),
   Answer(<<"{}">>), Answer(<<"null">>), Answer(<<"str">>),
   Answer(Serialize(<<"Dfull">>)),
   Answer(<<PROSE, WS, "Dfull">>),
   Answer(<<FENCE, JSONTAG, WS, "Dfull", WS, FENCE>>)}

\* A result record of an earlier run.
Record(title, content, images) ==
  [title |-> title, content |-> content, images |-> images]
PrevCollection == <<Record(JStr(<<"old">>), JStr(<<"summary">>), JList(<<>>))>>

\* The output file: absent, complete (data is its content), truncated
\* (opened for writing, nothing written yet), or partial.
File(state, data) == [state |-> state, data |-> data]

(***************************************************************************)
(* The state of a run.                                                     *)
(***************************************************************************)
VARIABLES
  key,                \* OPENROUTER_API_KEY
  pc,                 \* the position of the process
  file,               \* OUTPUT_FILE
  site,               \* main: index of the source being fetched
  caller,             \* fetch_jina_content: "home" or "detail"
  attempt,            \* fetch_jina_content: the loop variable
  text,               \* the value fetch_jina_content returned
  full_home_content,  \* main: the sections appended so far
  news_list,          \* main
  idx,                \* main: index in news_list of the item in work
  details,            \* main: the value get_article_details returned
  final_result,       \* main
  data,               \* save_json_file: its argument
  jinaIdle,           \* a sleep has ended since the last page request
  modelIdle,          \* a sleep has ended since the last model request
  fetched,            \* a page request was issued in this run
  modelCalls,         \* the number of model requests of this run
  conv,               \* the messages of the last model request
  written,            \* save_json_file completed in this run
  faulty,             \* the number of items whose detail step deviated
  itemFaulty,         \* the detail step of the item in work deviated
  file0,              \* OUTPUT_FILE as the run found it
  emptySources,       \* the number of sources whose fetch returned "",
                      \* from the fetch loop to the list call
  call,               \* the last model request: id, requests, outcome
  longSources,        \* the number of sources whose fetch returned at
                      \* least MinHomeLen characters, likewise
  reqs,               \* the number of HTTP requests the call of
                      \* fetch_jina_content in progress has issued
  xpc,                \* one extraction: its position
  xtarget,            \* one extraction: "array" (list step) or "object"
  xvalue,             \* the value whose serialization the answer holds
  xwrap,              \* how the serialization is wrapped in the answer
  xraw,               \* the raw answer (message content)
  xdata,              \* the value parsed from the answer
  xrepairs,           \* the number of repair attempts made
  xresult             \* the list get_latest_hot_news returns

xvars == <<xpc, xtarget, xvalue, xwrap, xraw, xdata, xrepairs, xresult>>

pvars == <<key, pc, file, site, caller, attempt, text, full_home_content,
          news_list, idx, details, final_result, data, jinaIdle, modelIdle,
          fetched, modelCalls, conv, written, faulty, itemFaulty,
          file0, emptySources, call, longSources, reqs>>

vars == <<pvars, xvars>>

NoWrap == [lead |-> "none", fence |-> "none", trail |-> "none", cut |-> "none"]
NoParse == [ok |-> FALSE, val |-> NoValue]

NoDetails == [none |-> TRUE, val |-> NoValue]
NoConv == [step |-> "none", turns |-> <<>>, inputLen |-> 0]

\* Lines 11-12: the one model identifier every request names.
AI_MODEL == "stepfun/step-3.5-flash:free"

\* The answer of the model gateway that carries no text: the request
\* raised (transport error, 429, 403) or the message content is empty.
Transient(resp) == resp.raised \/ resp.content = <<>>

NoCall == [step |-> "none", model |-> "none", requests |-> 0, failed |-> FALSE]

\* Mutant: a request that failed is issued once more.
ModelCallRetried(step, resp) ==
  [step |-> step, model |-> AI_MODEL,
   requests |-> IF Transient(resp) THEN 2 ELSE 1, failed |-> Transient(resp)]

\* Lines 133-137 and 201-205: one create call with model=AI_MODEL inside
\* the try block; whatever it raises ends the step (lines 171, 207).
ModelCall(step, resp) ==
  [step |-> step, model |-> AI_MODEL, requests |-> 1,
   failed |-> Transient(resp)]

Init ==
  /\ key \in Keys
  /\ pc = "import"
  /\ file \in {File("absent", <<>>), File("complete", PrevCollection)}
  /\ site = 1
  /\ caller = "home"
  /\ attempt = 0
  /\ text = NoText
  /\ full_home_content = <<>>
  /\ news_list = <<>>
  /\ idx = 1
  /\ details = NoDetails
  /\ final_result = <<>>
  /\ data = <<>>
  /\ jinaIdle = TRUE
  /\ modelIdle = TRUE
  /\ fetched = FALSE
  /\ modelCalls = 0
  /\ conv = NoConv
  /\ written = FALSE
  /\ faulty = 0
  /\ itemFaulty = FALSE
  /\ file0 = file
  /\ emptySources = 0
  /\ call = NoCall
  /\ longSources = 0
  /\ reqs = 0
  /\ xpc = "off"
  /\ xtarget = "array"
  /\ xvalue = NoValue
  /\ xwrap = NoWrap
  /\ xraw = <<>>
  /\ xdata = NoParse
  /\ xrepairs = 0
  /\ xresult = <<>>

\* Lines 26-31: the module body builds the client from the key.  With the
\* key unset the constructor either raises (no other key in the
\* environment) or accepts a key it finds elsewhere.
ImportModule ==
  /\ pc = "import"
  /\ UNCHANGED xvars
  /\ UNCHANGED reqs
  /\ UNCHANGED <<file0, emptySources, longSources>>
  /\ UNCHANGED call
  /\ \/ pc' = "main"
     \/ key = "unset" /\ pc' = "import_error"
  /\ UNCHANGED <<key, file, site, caller, attempt, text, full_home_content,
                 news_list, idx, details, final_result, data, jinaIdle,
                 modelIdle, fetched, modelCalls, conv, written, faulty,
                 itemFaulty>>

\* Mutant: main without the credential check.
KeyMissingNever(k) == FALSE

\* main, line 213: not OPENROUTER_API_KEY
KeyMissing(k) == k # "set"

\* main, lines 213-219
CheckKey ==
  /\ pc = "main"
  /\ UNCHANGED xvars
  /\ UNCHANGED reqs
  /\ UNCHANGED <<file0, emptySources, longSources>>
  /\ UNCHANGED call
  /\ IF KeyMissing(key)
     THEN pc' = "aborted" /\ UNCHANGED <<site, caller, attempt, full_home_content>>
     ELSE /\ pc' = "fetch"
          /\ site' = 1
          /\ caller' = "home"
          /\ attempt' = 0
          /\ full_home_content' = <<>>
  /\ UNCHANGED <<key, file, text, news_list, idx, details, final_result, data,
                 jinaIdle, modelIdle, fetched, modelCalls, conv, written,
                 faulty, itemFaulty>>

\* fetch_jina_content returns to its caller.
ReturnPc == IF caller = "home" THEN "home_ret" ELSE "detail_ret"

\* A response to a detail request that is not the nominal one counts
\* against MaxFaultyItems.
Deviates(r) == caller = "detail" /\ ~(r.kind = "http" /\ r.status = 200
                                      /\ r.text.len >= MinPageLen)

\* Mutant: a payload of any length is accepted.
TooShortNever(t) == FALSE

\* fetch_jina_content, line 87
TooShort(t) == t.len < MinPageLen

\* fetch_jina_content, lines 71-94: one pass of the loop body.
JinaAttempt ==
  /\ pc = "fetch"
  /\ UNCHANGED xvars
  /\ reqs' = reqs + 1
  /\ UNCHANGED <<file0, emptySources, longSources>>
  /\ UNCHANGED call
  /\ attempt < MaxAttempts
  /\ \E r \in Responses :
       /\ Deviates(r) => (itemFaulty \/ faulty < MaxFaultyItems)
       /\ itemFaulty' = (itemFaulty \/ Deviates(r))
       /\ faulty' = IF Deviates(r) /\ ~itemFaulty THEN faulty + 1 ELSE faulty
       /\ fetched' = TRUE
       /\ IF r.kind = "exception"
          THEN \* lines 92-94: time.sleep(5)
               /\ attempt' = attempt + 1
               /\ jinaIdle' = TRUE /\ modelIdle' = TRUE
               /\ UNCHANGED <<pc, text>>
          ELSE IF r.status = 429
          THEN \* lines 76-79: time.sleep(10)
               /\ attempt' = attempt + 1
               /\ jinaIdle' = TRUE /\ modelIdle' = TRUE
               /\ UNCHANGED <<pc, text>>
          ELSE IF r.status # 200 \/ TooShort(r.text)
          THEN \* lines 81-83, 87-89: continue
               /\ attempt' = attempt + 1
               /\ jinaIdle' = FALSE
               /\ UNCHANGED <<pc, text, modelIdle>>
          ELSE \* line 91
               /\ text' = r.text
               /\ pc' = ReturnPc
               /\ attempt' = 0
               /\ jinaIdle' = FALSE
               /\ UNCHANGED modelIdle
  /\ UNCHANGED <<key, file, site, caller, full_home_content, news_list, idx,
                 details, final_result, data, modelCalls, conv, written>>

\* fetch_jina_content, line 96
JinaGiveUp ==
  /\ pc = "fetch"
  /\ UNCHANGED xvars
  /\ UNCHANGED reqs
  /\ UNCHANGED <<file0, emptySources, longSources>>
  /\ UNCHANGED call
  /\ attempt = MaxAttempts
  /\ text' = NoText
  /\ pc' = ReturnPc
  /\ attempt' = 0
  /\ UNCHANGED <<key, file, site, caller, full_home_content,
                 news_list, idx, details, final_result, data, jinaIdle,
                 modelIdle, fetched, modelCalls, conv, written, faulty,
                 itemFaulty>>

\* main, line 222
LongEnough(t) == t.len > MinHomeLen

\* main, lines 221-224, and the loop's next pass (line 220)
HomeNext ==
  /\ pc = "home_ret"
  /\ UNCHANGED xvars
  /\ reqs' = 0
  /\ UNCHANGED file0
  /\ UNCHANGED call
  /\ full_home_content' =
       IF LongEnough(text)
       THEN Append(full_home_content, [site |-> SOURCES[site], text |-> text])
       ELSE full_home_content
  /\ jinaIdle' = TRUE /\ modelIdle' = TRUE
  /\ IF site < Len(SOURCES)
     THEN site' = site + 1 /\ attempt' = 0 /\ pc' = "fetch"
     ELSE pc' = "home_done" /\ UNCHANGED <<site, attempt>>
  /\ emptySources' = IF text = NoText THEN emptySources + 1 ELSE emptySources
  /\ longSources' = IF text.len >= MinHomeLen THEN longSources + 1
                                               ELSE longSources
  /\ text' = NoText
  /\ UNCHANGED <<key, file, caller, news_list, idx, details,
                 final_result, data, fetched, modelCalls, conv, written,
                 faulty, itemFaulty>>

\* Mutant: the check of the fetched content removed.
NothingFetchedNever(doc) == FALSE

\* main, line 226: not full_home_content
NothingFetched(doc) == doc = <<>>

\* main, lines 226-230
CheckHome ==
  /\ pc = "home_done"
  /\ UNCHANGED xvars
  /\ UNCHANGED reqs
  /\ UNCHANGED <<file0, emptySources, longSources>>
  /\ UNCHANGED call
  /\ IF NothingFetched(full_home_content)
     THEN data' = <<>> /\ pc' = "save_open"
     ELSE pc' = "list" /\ UNCHANGED data
  /\ UNCHANGED <<key, file, site, caller, attempt, text, full_home_content,
                 news_list, idx, details, final_result, jinaIdle, modelIdle,
                 fetched, modelCalls, conv, written, faulty, itemFaulty>>

\* The messages of a request: one user turn that carries the instruction
\* and the first limit characters of the input (lines 114, 135, 191, 203).
Turn(kind, chars) == [role |-> "user", kind |-> kind, chars |-> chars]

\* Mutant: the input is sent whole.
ConversationWhole(step, inputLen, limit) ==
  [step |-> step, turns |-> <<Turn("final", inputLen)>>, inputLen |-> inputLen]

Conversation(step, inputLen, limit) ==
  [step |-> step, turns |-> <<Turn("final", Min(inputLen, limit))>>,
   inputLen |-> inputLen]

\* main, lines 233-242, with get_latest_hot_news
ListStep ==
  /\ pc = "list"
  /\ UNCHANGED xvars
  /\ UNCHANGED reqs
  /\ UNCHANGED file0
  /\ emptySources' = 0 /\ longSources' = 0
  /\ \E resp \in ListResponses :
       /\ news_list' = get_latest_hot_news(full_home_content, resp)
       /\ call' = ModelCall("list", resp)
       /\ conv' = Conversation("list", DocLen(full_home_content), ListContextLimit)
       /\ modelCalls' = modelCalls + 1
       /\ modelIdle' = FALSE
       /\ IF news_list' = <<>>
          THEN data' = <<>> /\ pc' = "save_open" /\ UNCHANGED <<idx, final_result>>
          ELSE /\ pc' = "detail"
               /\ idx' = 1
               /\ final_result' = <<>>
               /\ UNCHANGED data
  /\ UNCHANGED <<key, file, site, caller, attempt, text, full_home_content,
                 details, jinaIdle, fetched, written, faulty, itemFaulty>>

\* main, line 243-244 and get_article_details, lines 177-182: the next
\* item, time.sleep(3), the call of fetch_jina_content; after the last
\* item, lines 253-259.
DetailBegin ==
  /\ pc = "detail"
  /\ UNCHANGED xvars
  /\ UNCHANGED reqs
  /\ UNCHANGED <<file0, emptySources, longSources>>
  /\ UNCHANGED call
  /\ IF idx <= Len(news_list)
     THEN /\ jinaIdle' = TRUE /\ modelIdle' = TRUE
          /\ caller' = "detail"
          /\ attempt' = 0
          /\ itemFaulty' = FALSE
          /\ pc' = "fetch"
          /\ UNCHANGED data
     ELSE /\ data' = final_result
          /\ pc' = "save_open"
          /\ UNCHANGED <<jinaIdle, modelIdle, caller, attempt, itemFaulty>>
  /\ UNCHANGED <<key, file, site, text, full_home_content, news_list, idx,
                 details, final_result, fetched, modelCalls, conv, written,
                 faulty>>

\* get_article_details, lines 183-209
DetailStep ==
  /\ pc = "detail_ret"
  /\ UNCHANGED xvars
  /\ reqs' = 0
  /\ UNCHANGED <<file0, emptySources, longSources>>
  /\ IF text = NoText
     THEN /\ details' = NoDetails
          /\ UNCHANGED <<conv, call, modelCalls, modelIdle, faulty, itemFaulty>>
     ELSE \E resp \in DetailResponses :
            /\ (resp # NominalDetail) => (itemFaulty \/ faulty < MaxFaultyItems)
            /\ itemFaulty' = (itemFaulty \/ resp # NominalDetail)
            /\ faulty' = IF resp # NominalDetail /\ ~itemFaulty
                         THEN faulty + 1 ELSE faulty
            /\ details' = [none |-> FALSE, val |-> get_article_details(resp)]
            /\ conv' = Conversation("detail", text.len, DetailContextLimit)
            /\ call' = ModelCall("detail", resp)
            /\ modelCalls' = modelCalls + 1
            /\ modelIdle' = FALSE
  /\ text' = NoText
  /\ pc' = "append"
  /\ UNCHANGED <<key, file, site, caller, attempt, full_home_content,
                 news_list, idx, final_result, data, jinaIdle, fetched,
                 written>>

\* main, line 245: if details
HasDetails(d) == ~d.none /\ ValueTruthy(d.val)

\* main, lines 245-250: details.get on a value that is no object raises
\* AttributeError, which nothing catches.
AppendRecord ==
  /\ pc = "append"
  /\ UNCHANGED xvars
  /\ UNCHANGED reqs
  /\ UNCHANGED <<file0, emptySources, longSources>>
  /\ IF ~HasDetails(details)
     THEN pc' = "detail" /\ idx' = idx + 1 /\ UNCHANGED final_result
     ELSE IF ~IsDictValue(details.val)
     THEN pc' = "crashed" /\ UNCHANGED <<idx, final_result>>
     ELSE /\ final_result' =
               Append(final_result,
                      Record(news_list[idx].title,
                             Get(Dict(details.val.tok), "content", JStr(<<>>)),
                             Get(Dict(details.val.tok), "images", JList(<<>>))))
          /\ idx' = idx + 1
          /\ pc' = "detail"
  /\ details' = NoDetails
  /\ conv' = NoConv
  /\ call' = NoCall
  /\ UNCHANGED <<key, file, site, caller, attempt, text, full_home_content,
                 news_list, data, jinaIdle, modelIdle, fetched,
                 modelCalls, written, faulty, itemFaulty>>

\* Mutant: the file opened in append mode.
OpenedForAppend(f) == f

\* save_json_file, line 51: open(OUTPUT_FILE, "w") empties the file.
Opened(f) == File("truncated", <<>>)

\* save_json_file, line 52: json.dump writes the collection after what the
\* file holds.
Dumped(f, d) == File("complete", f.data \o d)

SaveOpen ==
  /\ pc = "save_open"
  /\ UNCHANGED xvars
  /\ UNCHANGED reqs
  /\ UNCHANGED <<file0, emptySources, longSources>>
  /\ UNCHANGED call
  /\ file' = Opened(file)
  /\ pc' = "save_dump"
  /\ UNCHANGED <<key, site, caller, attempt, text, full_home_content,
                 news_list, idx, details, final_result, data, jinaIdle,
                 modelIdle, fetched, modelCalls, conv, written, faulty,
                 itemFaulty>>

\* save_json_file, lines 52-53, and the return from main
SaveDump ==
  /\ pc = "save_dump"
  /\ UNCHANGED xvars
  /\ UNCHANGED reqs
  /\ UNCHANGED <<file0, emptySources, longSources>>
  /\ UNCHANGED call
  /\ file' = Dumped(file, data)
  /\ written' = TRUE
  /\ pc' = "done"
  /\ UNCHANGED <<key, site, caller, attempt, text, full_home_content,
                 news_list, idx, details, final_result, data, jinaIdle,
                 modelIdle, fetched, modelCalls, conv, faulty, itemFaulty>>

Next ==
  \/ ImportModule
  \/ CheckKey
  \/ JinaAttempt
  \/ JinaGiveUp
  \/ HomeNext
  \/ CheckHome
  \/ ListStep
  \/ DetailBegin
  \/ DetailStep
  \/ AppendRecord
  \/ SaveOpen
  \/ SaveDump

Spec == Init /\ [][Next]_vars

(***************************************************************************)
(* The run under an external supervisor that may terminate the process at  *)
(* any point.                                                              *)
(***************************************************************************)
Running == pc \notin {"import_error", "aborted", "crashed", "done", "killed"}

\* What OUTPUT_FILE holds when the process ends between open (line 51) and
\* the close that ends the with block (line 52): nothing, when no part of
\* the serialization left the write buffer, or a proper prefix of it.
Interrupted(f, d) ==
  {f} \cup (IF d = <<>> THEN {} ELSE {File("partial", d)})

\* The supervisor terminates the process.  Outside of save_json_file the
\* file is as it was; inside (lines 51-52) it is as the write left it.
Kill ==
  /\ Running
  /\ UNCHANGED xvars
  /\ UNCHANGED reqs
  /\ UNCHANGED <<file0, emptySources, longSources>>
  /\ UNCHANGED call
  /\ pc' = "killed"
  /\ file' \in (IF pc = "save_dump" THEN Interrupted(file, data) ELSE {file})
  /\ UNCHANGED <<key, site, caller, attempt, text, full_home_content,
                 news_list, idx, details, final_result, data, jinaIdle,
                 modelIdle, fetched, modelCalls, conv, written, faulty,
                 itemFaulty>>

NextKill ==
  \/ ImportModule
  \/ CheckKey
  \/ JinaAttempt
  \/ JinaGiveUp
  \/ HomeNext
  \/ CheckHome
  \/ ListStep
  \/ DetailBegin
  \/ DetailStep
  \/ AppendRecord
  \/ SaveOpen
  \/ SaveDump
  \/ Kill

SpecKill == Init /\ [][NextKill]_vars

(***************************************************************************)
(* One extraction, step by step: the answer's content is cleaned, parsed,  *)
(* repaired if the list step's repair applies, and validated.  The inputs  *)
(* are serializations of values, wrapped in prose and fences and cut.      *)
(***************************************************************************)
\* The longest array among the inputs (besides NineItems).
MaxItems == 3

RECURSIVE Arrays(_)
Arrays(n) ==
  IF n = 0 THEN {<<>>}
  ELSE Arrays(n - 1)
       \cup {Append(a, t) : a \in {b \in Arrays(n - 1) : Len(b) = n - 1},
                            t \in {"Ia", "Ib"}}

ArrayValues  == {VList([i \in 1..Len(a) |-> VAtom(a[i])]) : a \in Arrays(MaxItems) \cup {NineItems}}
ObjectValues == {VAtom("Dfull"), VAtom("Dnoimg")}

\* json.dumps of a value
Dumps(v) ==
  IF v.kind = "list" THEN Serialize([i \in 1..Len(v.elems) |-> v.elems[i].tok])
  ELSE <<v.tok>>

Wraps == [lead : {"none", "prose"}, fence : {"none", "plain", "json", "other"},
          trail : {"none", "prose"}, cut : {"none", "closer", "closer_comma"}]

\* The serialization ser as the answer holds it: cut at its end, put in a
\* fenced block, preceded and followed by prose.
CutText(ser, cut) ==
  CASE cut = "closer" -> SubSeq(ser, 1, Len(ser) - 1)
    [] cut = "closer_comma" -> SubSeq(ser, 1, Len(ser) - 1) \o <<COMMA>>
    [] OTHER -> ser

FenceText(body, fence) ==
  CASE fence = "plain" -> <<FENCE, WS>> \o body \o <<WS, FENCE>>
    [] fence = "json"  -> <<FENCE, JSONTAG, WS>> \o body \o <<WS, FENCE>>
    [] fence = "other" -> <<FENCE, PROSE, WS>> \o body \o <<WS, FENCE>>
    [] OTHER -> body

WrapText(ser, w) ==
  (IF w.lead = "prose" THEN <<PROSE, PROSE, WS>> ELSE <<>>)
  \o FenceText(CutText(ser, w.cut), w.fence)
  \o (IF w.trail = "prose" THEN <<WS, PROSE>> ELSE <<WS>>)

\* The document of the list step in an extraction.
XDoc == <<[site |-> ITHOME, text |-> Text(MinHomeLen + 1, FALSE)]>>

InitExtract ==
  /\ key = "set"
  /\ pc = "off"
  /\ file = File("absent", <<>>)
  /\ site = 1
  /\ caller = "home"
  /\ attempt = 0
  /\ text = NoText
  /\ full_home_content = XDoc
  /\ news_list = <<>>
  /\ idx = 1
  /\ details = NoDetails
  /\ final_result = <<>>
  /\ data = <<>>
  /\ jinaIdle = TRUE
  /\ modelIdle = TRUE
  /\ fetched = FALSE
  /\ modelCalls = 0
  /\ conv = NoConv
  /\ written = FALSE
  /\ faulty = 0
  /\ itemFaulty = FALSE
  /\ file0 = file
  /\ emptySources = 0
  /\ call = NoCall
  /\ longSources = 0
  /\ reqs = 0
  /\ xpc = "start"
  /\ xtarget \in {"array", "object"}
  /\ xvalue \in (IF xtarget = "array" THEN ArrayValues ELSE ObjectValues)
  /\ xwrap \in {w \in Wraps : xtarget = "object" => w.cut = "none"}
  /\ xraw = WrapText(Dumps(xvalue), xwrap)
  /\ xdata = NoParse
  /\ xrepairs = 0
  /\ xresult = <<>>

\* get_latest_hot_news, lines 138-150: the first json.loads and the choice
\* made when it fails.
XParseList ==
  /\ xpc = "start"
  /\ xtarget = "array"
  /\ LET cleaned_content == clean_json_string(xraw)
         first == json_loads(cleaned_content)
     IN  IF first.ok
         THEN xdata' = first /\ xpc' = "validate" /\ UNCHANGED xresult
         ELSE IF Repairable(cleaned_content)
         THEN xpc' = "repair" /\ UNCHANGED <<xdata, xresult>>
         ELSE xresult' = <<>> /\ xpc' = "done" /\ UNCHANGED xdata
  /\ UNCHANGED <<xtarget, xvalue, xwrap, xraw, xrepairs>>
  /\ UNCHANGED pvars

\* get_latest_hot_news, lines 146-147: the closer is appended and the text
\* parsed again; a failure of this json.loads is an exception on its way
\* to the outer handler.
XRepair ==
  /\ xpc = "repair"
  /\ xrepairs' = xrepairs + 1
  /\ LET again == json_loads(Append(clean_json_string(xraw), RBR))
     IN  IF again.ok
         THEN xdata' = again /\ xpc' = "validate"
         ELSE xpc' = "raised" /\ UNCHANGED xdata
  /\ UNCHANGED <<xtarget, xvalue, xwrap, xraw, xresult>>
  /\ UNCHANGED pvars

\* get_latest_hot_news, lines 171-173
XHandler ==
  /\ xpc = "raised"
  /\ xresult' = <<>>
  /\ xpc' = "done"
  /\ UNCHANGED <<xtarget, xvalue, xwrap, xraw, xdata, xrepairs>>
  /\ UNCHANGED pvars

\* get_latest_hot_news, lines 153-169
XValidate ==
  /\ xpc = "validate"
  /\ IF xdata.val.kind # "list"
     THEN xresult' = <<>>
     ELSE LET v == ValidData(xdata.val.elems, 1, <<>>, full_home_content)
          IN  xresult' = IF v.raised THEN <<>> ELSE Cap(v.items)
  /\ xpc' = "done"
  /\ UNCHANGED <<xtarget, xvalue, xwrap, xraw, xdata, xrepairs>>
  /\ UNCHANGED pvars

\* get_article_details, line 206
XParseObject ==
  /\ xpc = "start"
  /\ xtarget = "object"
  /\ xdata' = json_loads(clean_json_string(xraw))
  /\ xpc' = "done"
  /\ UNCHANGED <<xtarget, xvalue, xwrap, xraw, xrepairs, xresult>>
  /\ UNCHANGED pvars

NextExtract ==
  \/ XParseList
  \/ XRepair
  \/ XHandler
  \/ XValidate
  \/ XParseObject

SpecExtract == InitExtract /\ [][NextExtract]_vars

\* The stepwise extraction returns what get_latest_hot_news returns.
XAgrees ==
  (xpc = "done" /\ xtarget = "array")
    => xresult = get_latest_hot_news(full_home_content, Answer(xraw))

(***************************************************************************)
(* Properties.                                                             *)
(***************************************************************************)
Ended == pc \in {"done", "aborted", "crashed", "import_error"}

\* The number of items the list prompt asks for (and the comment of line
\* 169 names).
HotNewsCount == 5

\* C1 (as stated) - A run that produces zero records leaves the file as it
\* found it: a non-empty collection of an earlier run is still the file's
\* content when the run has ended.
C1_ZeroRecordRunKeepsFile ==
  (Ended /\ final_result = <<>> /\ file0.state = "complete" /\ file0.data # <<>>)
    => file = file0

\* C1 (amended) - A run that produces zero records and returns from main
\* past the credential check has replaced the file's content by the empty
\* collection; the file is as the run found it only when the run ended
\* without reaching save_json_file (credential missing, exception).
C1_ZeroRecordRunWritesEmpty ==
  /\ (pc = "done" /\ final_result = <<>>) => file = File("complete", <<>>)
  /\ (Ended /\ pc # "done") => file = file0

C1_Witness ==
  /\ pc = "done"
  /\ news_list # <<>>
  /\ final_result = <<>>
  /\ file0 = File("complete", PrevCollection)
  /\ file = File("complete", <<>>)

\* C2 - No exception escapes main, and a run that returns from main past
\* the credential check has written a collection.
C2_NoCrashAndWritten ==
  /\ pc # "crashed"
  /\ (pc = "done") => written

\* C3 - When every source fetch returned the empty string, the run makes
\* no model call: it goes from the end of the fetch loop to the save and
\* ends, each of these positions having a next step.
C3_NoModelCallWhenAllFetchesEmpty ==
  (emptySources = Len(SOURCES))
    => /\ modelCalls = 0
       /\ pc \in {"home_done", "save_open", "save_dump", "done"}
       /\ (pc # "done") => ENABLED Next

C3_Witness ==
  /\ pc = "done"
  /\ emptySources = Len(SOURCES)
  /\ fetched
  /\ modelCalls = 0

\* C4 - With the credential missing the run issues no page request and no
\* model request and leaves the output file alone: it ends at the import
\* or at the check of line 213.
C4_MissingKeyAbortsBeforeNetwork ==
  (key # "set")
    => /\ ~fetched
       /\ modelCalls = 0
       /\ ~written
       /\ file = file0
       /\ pc \in {"import", "import_error", "main", "aborted"}

C4_Witness ==
  /\ pc = "aborted"
  /\ key = "unset"
  /\ file = File("complete", PrevCollection)

\* C5 - A request to a target is issued only after a sleep has ended since
\* the previous request to that target.
C5_SleepBetweenRequests ==
  /\ (pc = "fetch" /\ attempt < MaxAttempts) => jinaIdle
  /\ (pc = "list" \/ (pc = "detail_ret" /\ text # NoText)) => modelIdle

\* C6 - The list step yields at most 5 items, main makes at most 5 detail
\* fetches and the written collection holds at most 5 records.
C6_AtMostFive ==
  /\ Len(news_list) <= HotNewsCount
  /\ (pc \in {"fetch", "detail_ret", "append"} /\ caller = "detail")
       => idx <= HotNewsCount
  /\ (written => Len(file.data) <= HotNewsCount)

\* The url has a scheme.
HasScheme(u) == u # <<>> /\ u[1] \in SchemeOrigins \cup {"https:"}

\* The url has an elision marker.
Elided(u) == \E i \in 1..Len(u) : u[i] = ELLIPSIS

\* C7 - Every item of the list step's result has a url that is not empty,
\* has no elision marker and starts with a scheme.
C7_UrlsValid ==
  \A i \in 1..Len(news_list) :
    /\ news_list[i].url # <<>>
    /\ ~Elided(news_list[i].url)
    /\ HasScheme(news_list[i].url)

\* C8 - The value extracted from an answer that holds a value's whole
\* serialization, with or without prose before and after it and with or
\* without a fence (untagged or tagged json) around it, is that value.
C8_RoundTrip ==
  (xpc = "done" /\ xwrap.cut = "none" /\ xwrap.fence # "other")
    => (xdata.ok /\ xdata.val = xvalue)

\* The items of a list of objects as the list step returns them.
NewsItems(v) ==
  [i \in 1..Len(v.elems) |->
     [title |-> Dict(v.elems[i].tok).title, url |-> Dict(v.elems[i].tok).url.s]]

\* The answer is the bare serialization (in a fence or not), cut as c.
BareCut(c) ==
  /\ xtarget = "array"
  /\ xwrap.lead = "none" /\ xwrap.trail = "none"
  /\ xwrap.fence \in {"none", "plain", "json"}
  /\ xwrap.cut = c

NumChunks(n, size) == IF n = 0 THEN 1 ELSE (n + size - 1) \div size

ContextLimit(step) == IF step = "list" THEN ListContextLimit ELSE DetailContextLimit

AckTurns(c) == Cardinality({i \in 1..Len(c.turns) : c.turns[i].kind = "ack"})

RECURSIVE SentChars(_)
SentChars(turns) ==
  IF turns = <<>> THEN 0 ELSE Head(turns).chars + SentChars(Tail(turns))

C12_AtomicReplace ==
  (pc = "killed")
    => \/ file = file0
       \/ file = File("complete", data)

\* C13 - The text fetch_jina_content returns, when it is not empty, is a
\* payload that is no failure: it is the body of a 200 response (the only
\* responses with a text), it is not shorter than the minimum length, and
\* it does not hold the "usage limit" marker.
C13_OnlyNonFailurePayloads ==
  (pc \in {"home_ret", "detail_ret"} /\ text # NoText)
    => /\ text.len >= MinPageLen
       /\ ~text.marker

\* C14 - Every record of a written, non-empty output collection has a
\* non-empty content string.
C14_ContentNonEmpty ==
  (pc = "done" /\ written /\ file.data # <<>>)
    => \A i \in 1..Len(file.data) :
         IsStr(file.data[i].content) /\ file.data[i].content.s # <<>>

\* C15 - When the two source fetches each returned at least 500
\* characters (500 included) the run goes on to ask the model for the
\* list, and a run whose list has 5 items and whose every detail fetch and
\* detail extraction succeeded has written exactly 5 records.
C15_FullRunWritesFive ==
  /\ (pc = "home_done" /\ longSources = Len(SOURCES))
       => ENABLED (CheckHome /\ pc' = "list")
  /\ (pc = "done" /\ Len(news_list) = HotNewsCount /\ faulty = 0)
       => (written /\ Len(file.data) = HotNewsCount)

\* The url the answer gave for an item of the list, found by its title.
AnsweredUrl(item) ==
  LET tok == CHOOSE t \in DictTokens :
               "title" \in DOMAIN Dict(t) /\ Dict(t).title = item.title
  IN  Dict(tok).url.s

\* The origins whose homepage content is part of the document.
FetchedOrigins(doc) == {doc[j].site : j \in 1..Len(doc)}

ConfiguredOrigins == {SOURCES[k] : k \in 1..Len(SOURCES)}

\* C16 (as stated) - In the list step's result a url that had a scheme is
\* unchanged, and a url that began with "/" is joined with the origin of
\* a source whose homepage content is part of the document.
C16_JoinedWithFetchedOrigin ==
  \A i \in 1..Len(news_list) :
    LET u == AnsweredUrl(news_list[i])
    IN  /\ HasScheme(u) => news_list[i].url = u
        /\ StartsWithSlash(u)
             => \E o \in FetchedOrigins(full_home_content) :
                  news_list[i].url = urljoin(o, u)

\* C16 (amended) - In the list step's result a url that had a scheme is
\* unchanged, and a url that began with "/" is joined with one of the two
\* configured origins, chosen by a simple test of the texts and not by
\* which source was fetched: the second origin when the url holds
\* "mydrivers" or the document nowhere holds "ithome", else the first.
\* (Stated of the state the list step leaves: nothing assigns news_list
\* or full_home_content afterwards.)
C16_JoinedWithConfiguredOrigin ==
  (pc = "detail" /\ idx = 1) =>
  \A i \in 1..Len(news_list) :
    LET u == AnsweredUrl(news_list[i])
    IN  /\ HasScheme(u) => news_list[i].url = u
        /\ StartsWithSlash(u)
             => /\ \E o \in ConfiguredOrigins : news_list[i].url = urljoin(o, u)
                /\ ContainsMydrivers(u)
                     => news_list[i].url = urljoin(MYDRIVERS, u)
                /\ (~ContainsMydrivers(u) /\ ITHOME \in FetchedOrigins(full_home_content))
                     => news_list[i].url = urljoin(ITHOME, u)
                /\ (\A j \in 1..Len(full_home_content) :
                      ~full_home_content[j].text.ithome
                      /\ full_home_content[j].site # ITHOME)
                     => news_list[i].url = urljoin(MYDRIVERS, u)

\* A relative url joined with the origin of a source that is not in the
\* document.
C16_Witness ==
  /\ FetchedOrigins(full_home_content) = {MYDRIVERS}
  /\ Len(news_list) = 2
  /\ AnsweredUrl(news_list[1]) = UrlRel
  /\ news_list[1].url = urljoin(ITHOME, UrlRel)
  /\ news_list[2].url = urljoin(MYDRIVERS, UrlRelMyd)

\* fetch_jina_content has returned to its caller.
Returned == pc \in {"home_ret", "detail_ret"}

\* C17 - One call of fetch_jina_content issues at most 3 HTTP requests
\* whatever the responses; it never raises: while it is in progress the
\* call has a next step, a further request or the return; a request whose
\* payload is acceptable ends the call with that payload and no further
\* request;
\* the call returns the empty string only after 3 requests that all
\* failed; the caller then skips the source (nothing is appended) or the
\* article (no model call, no record) and the run goes on.
C17_BoundedFetch ==
  /\ reqs <= 3
  /\ (pc = "fetch") => reqs = attempt
  /\ (pc = "fetch" /\ reqs < 3) => ENABLED (JinaAttempt /\ pc' # "fetch")
  /\ (pc = "fetch" /\ reqs = 3) => ENABLED JinaGiveUp
  /\ Returned => ~ENABLED JinaAttempt
  /\ (Returned /\ text # NoText) => (reqs \in 1..3 /\ text.len >= MinPageLen)
  /\ (Returned /\ text = NoText) => reqs = 3
  /\ (pc = "home_ret" /\ text = NoText)
       => /\ ENABLED HomeNext
          /\ ~ENABLED (HomeNext /\ full_home_content' # full_home_content)
  /\ (pc = "detail_ret" /\ text = NoText)
       => /\ ENABLED DetailStep
          /\ ~ENABLED (DetailStep /\ (modelCalls' # modelCalls
                                      \/ details' # NoDetails))
  /\ (pc = "append" /\ details = NoDetails)
       => /\ ENABLED AppendRecord
          /\ ~ENABLED (AppendRecord /\ (final_result' # final_result
                                        \/ pc' # "detail"))

\* The fetch of an article returned the empty string after 3 requests.
C17_Witness ==
  /\ pc = "detail_ret"
  /\ text = NoText
  /\ reqs = 3
  /\ Len(news_list) = 2
  /\ idx = 1

Titles(recs) == [i \in 1..Len(recs) |-> recs[i].title]

\* s is t with some elements left out.
RECURSIVE IsSubSeq(_, _)
IsSubSeq(s, t) ==
  IF s = <<>> THEN TRUE
  ELSE IF t = <<>> THEN FALSE
  ELSE IF Head(s) = Head(t) THEN IsSubSeq(Tail(s), Tail(t))
  ELSE IsSubSeq(s, Tail(t))

\* The record of an item whose detail extraction failed.
PlaceholderRecord(item) ==
  Record(item.title, JStr(<<"extraction failed">>), JList(<<>>))

\* C18 - The records are an order-preserving sub-sequence of the news
\* list: between two items the titles of the records made so far are, in
\* order, titles of items already worked on, at most one record per item
\* (no step within an item but the append changes them), and the written
\* collection is these records; an item whose page fetch returned nothing
\* adds no record; an item whose page was fetched and whose model call or
\* parse failed has the placeholder as its details and adds exactly the
\* placeholder record, with an empty image list.
C18_OrderedSubSequence ==
  /\ Len(final_result) <= idx - 1
  /\ (pc \notin {"fetch", "detail_ret", "append"})
       => IsSubSeq(Titles(final_result), Titles(Take(news_list, idx - 1)))
  /\ (pc = "done" /\ written)
       => /\ file.data = final_result
          /\ IsSubSeq(Titles(file.data), Titles(news_list))
  /\ (pc = "append" /\ details.none)
       => ~ENABLED (AppendRecord /\ final_result' # final_result)
  /\ (pc = "append" /\ call.step = "detail" /\ call.failed)
       => details = [none |-> FALSE, val |-> VAtom("Dfailed")]
  /\ (pc = "append" /\ details = [none |-> FALSE, val |-> VAtom("Dfailed")])
       => /\ ENABLED (AppendRecord /\ Len(final_result') = Len(final_result) + 1)
          /\ ~ENABLED (AppendRecord
                       /\ final_result' # Append(final_result,
                                                 PlaceholderRecord(news_list[idx])))

\* A written collection of two records, the second one the placeholder
\* record of the second item.
C18_Witness ==
  /\ pc = "done"
  /\ written
  /\ Len(news_list) = 2
  /\ Len(file.data) = 2
  /\ file.data[2] = PlaceholderRecord(news_list[2])

====
